---- MODULE Spec2Model ----
(***************************************************************************)
(* A model of ScratchNet's Network (src/src/network.cpp): construction,    *)
(* setInput, feedForward, backPropagate, update and train.                 *)
(*                                                                         *)
(* Reals are modelled by integers (exact arithmetic).  The code indexes    *)
(* layers, weight matrices and the error list from 0; the model's          *)
(* sequences are indexed from 1, so the model's layer L is the code's      *)
(* layer L-1 and m_weightMatrices[L] connects layer L to layer L+1.        *)
(***************************************************************************)
EXTENDS Integers, Sequences, FiniteSets, TLC

VARIABLES
    pc,               \* "new" before construction, "idle" between calls, else the position inside train
    m_layerSizes,     \* Network::m_layerSizes
    m_numLayers,      \* Network::m_numLayers
    m_layers,         \* Network::m_layers: a sequence of layers, each a sequence of neurons
    m_weightMatrices, \* Network::m_weightMatrices: matrix = sequence of rows
    m_input,          \* Network::m_input
    m_targetOutput,   \* Network::m_targetOutput
    m_errors,         \* Network::m_errors
    trainingData,     \* train: the list of samples of the running call, << >> outside train
    trainingPass,     \* train: the local counter trainingPass
    lastOp,           \* history: the operation executed last
    lastArg,          \* history: the vector handed to it (setInput, setTarget), else << >>
    thrown,           \* history: the exception the last operation ended with, or "none"
    log,              \* history: the operations executed by the current train call, with their pass
    errOfLayer,       \* history: for each layer, the error the latest backPropagate computed for it
    nCalls            \* history: the number of calls made from outside

vars == << pc, m_layerSizes, m_numLayers, m_layers, m_weightMatrices, m_input,
           m_targetOutput, m_errors, trainingData, trainingPass,
           lastOp, lastArg, thrown, log, errOfLayer, nCalls >>

----------------------------------------------------------------------------
(* Bounds of the model *)

MaxCalls == 4     \* calls made on a network from outside, train counted once per sample
MaxSamples == 2   \* longest list of samples handed to train

(* Values the inputs are drawn from *)
RandVals == {-1, 1}          \* values numerical::randomDouble() may return
RandPeriods == {2, 3}        \* the generator's sequences explored: one value in every p draws differs
InputVals == {1, 4}          \* components of input vectors
TargetVals == {0, 1}         \* components of target vectors
Topologies == { <<>>, <<2>>, <<1, 0>>, <<2, 1>>, <<1, 2, 1>> }

\* The sequences of n draws from the generator
RandTapes(n) == { [k \in 1..n |-> IF (k % p) = (1 % p) THEN first ELSE -first] :
                    first \in RandVals, p \in RandPeriods }

----------------------------------------------------------------------------
(* Collaborators: the squashing function, the learning rate, linear algebra *)

SquashMax == 3
LEARNINGRATE == 1

Squash(x) == IF x > SquashMax THEN SquashMax
             ELSE IF x < -SquashMax THEN -SquashMax ELSE x

SquashDerivative(x) == IF x < SquashMax /\ x > -SquashMax THEN 1 ELSE 0

RECURSIVE Dot(_, _, _)
Dot(a, b, n) == IF n = 0 THEN 0 ELSE a[n] * b[n] + Dot(a, b, n - 1)

\* linalg::Matrix<double>::operator*(vector): one component per row
MatVec(M, v) == [j \in 1..Len(M) |-> Dot(M[j], v, Len(M[j]))]

\* linalg::Matrix<double>::transpose()
Transpose(M) == IF Len(M) = 0 THEN << >>
                ELSE [i \in 1..Len(M[1]) |-> [j \in 1..Len(M) |-> M[j][i]]]

\* linalg::hadamardProduct
hadamardProduct(a, b) == [i \in 1..Len(a) |-> a[i] * b[i]]

Last(s) == s[Len(s)]

----------------------------------------------------------------------------
(* Neuron and Layer *)

\* Neuron::activate and Neuron::derive: the activation is computed from the
\* raw input field; the stored bias is not part of it.
activate(n) == [n EXCEPT !.activation = Squash(n.input)]
derive(n) == [n EXCEPT !.derivative = SquashDerivative(n.input)]

\* Neuron(input): the bias keeps its default member initializer
Neuron(x) == derive(activate([input |-> x, activation |-> 0, derivative |-> 0, bias |-> 0]))

Layer(size) == [k \in 1..size |-> Neuron(0)]

\* Layer::setInputAt: sets the neuron's input and recomputes activation and derivative
setInputAt(layer, idx, value) ==
    [layer EXCEPT ![idx] = derive(activate([@ EXCEPT !.input = value]))]

\* Layer::setBiasAt: sets the neuron's bias, nothing else
setBiasAt(layer, idx, value) == [layer EXCEPT ![idx].bias = value]

getSize(layer) == Len(layer)
getInputs(layer) == [k \in 1..Len(layer) |-> layer[k].input]
getActivations(layer) == [k \in 1..Len(layer) |-> layer[k].activation]
getDerivatives(layer) == [k \in 1..Len(layer) |-> layer[k].derivative]

----------------------------------------------------------------------------
(* Network::Network *)

\* The caller's contract for the layer sizes (the constructor does not check it)
ValidSizes(sizes) == Len(sizes) >= 2 /\ \A L \in 1..Len(sizes) : sizes[L] >= 1

\* Random draws made while building transition L (matrix, then biases) and before it
DrawsOf(sizes, L) == sizes[L + 1] * sizes[L] + sizes[L + 1]

RECURSIVE DrawsBefore(_, _)
DrawsBefore(sizes, L) == IF L <= 1 THEN 0
                         ELSE DrawsBefore(sizes, L - 1) + DrawsOf(sizes, L - 1)

NumDraws(sizes) == IF Len(sizes) = 0 THEN 0 ELSE DrawsBefore(sizes, Len(sizes))

\* (variant: rows and columns exchanged)
NewWeightMatrixSwapped(sizes, L, tape) ==
    [j \in 1..sizes[L] |->
        [i \in 1..sizes[L + 1] |-> tape[DrawsBefore(sizes, L) + (j - 1) * sizes[L + 1] + i]]]

\* The weight matrix of transition L: rows are neurons of the next layer,
\* columns neurons of the current layer
NewWeightMatrix(sizes, L, tape) ==
    [j \in 1..sizes[L + 1] |->
        [i \in 1..sizes[L] |-> tape[DrawsBefore(sizes, L) + (j - 1) * sizes[L] + i]]]

NewLayer(sizes, L, tape) ==
    IF L = 1 THEN Layer(sizes[L])
    ELSE [k \in 1..sizes[L] |->
            [Layer(sizes[L])[k] EXCEPT
                !.bias = tape[DrawsBefore(sizes, L - 1) + sizes[L] * sizes[L - 1] + k]]]

Construct ==
    /\ pc = "new"
    /\ \E sizes \in Topologies :
         \E tape \in RandTapes(NumDraws(sizes)) :
            /\ m_layerSizes' = sizes
            /\ m_numLayers' = Len(sizes)
            /\ m_layers' = [L \in 1..Len(sizes) |-> NewLayer(sizes, L, tape)]
            /\ m_weightMatrices' =
                   [L \in 1..(IF Len(sizes) = 0 THEN 0 ELSE Len(sizes) - 1) |->
                        NewWeightMatrix(sizes, L, tape)]
    /\ pc' = "idle"
    /\ lastOp' = "Network"
    /\ lastArg' = << >>
    /\ thrown' = "none"
    /\ UNCHANGED << m_input, m_targetOutput, m_errors, trainingData, trainingPass,
                    log, errOfLayer, nCalls >>

----------------------------------------------------------------------------
(* History bookkeeping shared by the operations *)

InTrain == pc \notin {"new", "idle"}

\* An operation appends itself to the log when train is what runs it
Logged(op, arg) ==
    /\ lastOp' = op
    /\ lastArg' = arg
    /\ log' = IF InTrain THEN Append(log, << op, arg >>) ELSE log

----------------------------------------------------------------------------
(* Network::setInput *)

\* The loop of setInput: neuronIndex runs over the INPUT's indices; Layer's
\* range check ends it with an out-of-range error at the first index the
\* layer does not have.
RECURSIVE SetInputs(_, _, _)
SetInputs(layer, input, idx) ==
    IF idx > Len(input) \/ idx > getSize(layer) THEN layer
    ELSE SetInputs(setInputAt(layer, idx, input[idx]), input, idx + 1)

setInput(input) ==
    /\ m_input' = input
    /\ m_layers' = [m_layers EXCEPT ![1] = SetInputs(@, input, 1)]
    /\ thrown' = IF Len(input) > getSize(m_layers[1]) THEN "out_of_range" ELSE "none"
    /\ Logged("setInput", input)
    /\ UNCHANGED << m_layerSizes, m_numLayers, m_weightMatrices, m_targetOutput,
                    m_errors, errOfLayer >>

(* Network::setTarget *)
setTarget(target) ==
    /\ m_targetOutput' = target
    /\ thrown' = "none"
    /\ Logged("setTarget", target)
    /\ UNCHANGED << m_layerSizes, m_numLayers, m_layers, m_weightMatrices, m_input,
                    m_errors, errOfLayer >>

----------------------------------------------------------------------------
(* Network::feedForward *)

\* The inner loop: every component of nextLayerInputs becomes a neuron's input
RECURSIVE SetLayerInputs(_, _, _)
SetLayerInputs(layer, inputs, neuronNum) ==
    IF neuronNum > Len(inputs) THEN layer
    ELSE SetLayerInputs(setInputAt(layer, neuronNum, inputs[neuronNum]), inputs, neuronNum + 1)

\* (variant: the activations layer L had before the pass)
ForwardStepStale(layers, weights, L) ==
    [layers EXCEPT ![L + 1] =
        SetLayerInputs(@, MatVec(weights[L], getActivations(m_layers[L])), 1)]

\* One transition: the activations of layer L, as they are now, through the weights
ForwardStep(layers, weights, L) ==
    [layers EXCEPT ![L + 1] =
        SetLayerInputs(@, MatVec(weights[L], getActivations(layers[L])), 1)]

\* The outer loop, from the input layer to the penultimate layer
RECURSIVE ForwardFrom(_, _, _)
ForwardFrom(layers, weights, L) ==
    IF L > Len(layers) - 1 THEN layers
    ELSE ForwardFrom(ForwardStep(layers, weights, L), weights, L + 1)

feedForward ==
    /\ m_layers' = ForwardFrom(m_layers, m_weightMatrices, 1)
    /\ thrown' = "none"
    /\ Logged("feedForward", << >>)
    /\ UNCHANGED << m_layerSizes, m_numLayers, m_weightMatrices, m_input,
                    m_targetOutput, m_errors, errOfLayer >>

----------------------------------------------------------------------------
(* Network::backPropagate *)

\* gradCost: activation minus target, per output neuron
GradCost(output, target) == [i \in 1..Len(output) |-> output[i] - target[i]]

OutputError(layers, target) ==
    hadamardProduct(GradCost(getActivations(Last(layers)), target),
                    getDerivatives(Last(layers)))

\* (variant: the derivatives of layer L left out)
HiddenErrorNoDerivative(layers, weights, errors, L) ==
    MatVec(Transpose(weights[L]), Last(errors))

\* One step of the recurrence, for layer L: the transposed weights of the
\* transition L -> L+1 times the error pushed last, times the derivatives of L
HiddenError(layers, weights, errors, L) ==
    hadamardProduct(MatVec(Transpose(weights[L]), Last(errors)),
                    getDerivatives(layers[L]))

\* The loop of backPropagate, from the penultimate layer down to the layer
\* after the input layer
RECURSIVE BackFrom(_, _, _, _)
BackFrom(layers, weights, errors, L) ==
    IF L < 2 THEN errors
    ELSE BackFrom(layers, weights,
                  Append(errors, HiddenError(layers, weights, errors, L)), L - 1)

BackPropagated(layers, weights, target, errors) ==
    BackFrom(layers, weights, Append(errors, OutputError(layers, target)),
             Len(layers) - 1)

\* m_targetOutput.at(i) throws before anything is stored when the target is
\* shorter than the output layer
backPropagate ==
    /\ IF Len(m_targetOutput) < getSize(Last(m_layers))
       THEN /\ thrown' = "out_of_range"
            /\ UNCHANGED << m_errors, errOfLayer >>
       ELSE /\ thrown' = "none"
            /\ m_errors' = BackPropagated(m_layers, m_weightMatrices, m_targetOutput, m_errors)
            /\ errOfLayer' = [L \in 2..m_numLayers |->
                                 m_errors'[Len(m_errors) + (m_numLayers - L) + 1]]
    /\ Logged("backPropagate", << >>)
    /\ UNCHANGED << m_layerSizes, m_numLayers, m_layers, m_weightMatrices, m_input,
                    m_targetOutput >>

----------------------------------------------------------------------------
(* Network::update *)

\* (variant: counted from the start of the list, numWeightMatrices-1-l)
ErrorIndexFromStart(errors, L) == Len(m_weightMatrices) - L + 1

\* The error vector update reads for weight matrix L: counted from the END of
\* the error list
ErrorIndex(errors, L) == Len(errors) - L + 1

UpdatedWeights(layers, weights, errors) ==
    [L \in 1..Len(weights) |->
        [j \in 1..getSize(layers[L + 1]) |->
            [i \in 1..getSize(layers[L]) |->
                weights[L][j][i]
                    - LEARNINGRATE * getActivations(layers[L])[i]
                                   * errors[ErrorIndex(errors, L)][j]]]]

\* (variant: the bias step scaled by the neuron's activation, as a weight's is)
UpdatedLayersTimesActivation(layers, weights, errors) ==
    [L \in 1..Len(layers) |->
        IF L = 1 THEN layers[L]
        ELSE [j \in 1..getSize(layers[L]) |->
                 setBiasAt(layers[L], j,
                           layers[L][j].bias
                               - LEARNINGRATE * layers[L][j].activation
                                              * errors[ErrorIndex(errors, L - 1)][j])[j]]]

UpdatedLayers(layers, weights, errors) ==
    [L \in 1..Len(layers) |->
        IF L = 1 THEN layers[L]
        ELSE [j \in 1..getSize(layers[L]) |->
                 setBiasAt(layers[L], j,
                           layers[L][j].bias
                               - LEARNINGRATE * errors[ErrorIndex(errors, L - 1)][j])[j]]]

\* m_errors.at(m_errors.size()-1-l) throws, before anything is written, when
\* the error list is empty
update ==
    /\ IF Len(m_errors) < Len(m_weightMatrices)
       THEN /\ thrown' = "out_of_range"
            /\ UNCHANGED << m_weightMatrices, m_layers >>
       ELSE /\ thrown' = "none"
            /\ m_weightMatrices' = UpdatedWeights(m_layers, m_weightMatrices, m_errors)
            /\ m_layers' = UpdatedLayers(m_layers, m_weightMatrices, m_errors)
    /\ Logged("update", << >>)
    /\ UNCHANGED << m_layerSizes, m_numLayers, m_input, m_targetOutput, m_errors,
                    errOfLayer >>

----------------------------------------------------------------------------
(* Inputs of the calls *)

RECURSIVE VectorsOfLen(_, _)
VectorsOfLen(vals, n) ==
    IF n = 0 THEN { << >> }
    ELSE { Append(v, x) : v \in VectorsOfLen(vals, n - 1), x \in vals }

MaxVecLen == 2
InputVectors == UNION { VectorsOfLen(InputVals, n) : n \in 0..MaxVecLen }

\* Well-formed training samples of the constructed network
Samples == { << x, t >> : x \in VectorsOfLen(InputVals, m_layerSizes[1]),
                          t \in VectorsOfLen(TargetVals, Last(m_layerSizes)) }

RECURSIVE SampleLists(_)
SampleLists(n) ==
    IF n = 0 THEN { << >> }
    ELSE { Append(d, s) : d \in SampleLists(n - 1), s \in Samples }

\* The operations are called on networks that meet the constructor's contract
Callable == pc = "idle" /\ ValidSizes(m_layerSizes) /\ nCalls < MaxCalls

----------------------------------------------------------------------------
(* Calls from outside *)

CallSetInput ==
    /\ Callable
    /\ \E input \in InputVectors : setInput(input)
    /\ nCalls' = nCalls + 1
    /\ UNCHANGED << pc, trainingData, trainingPass >>

CallSetTarget ==
    /\ Callable
    /\ \E target \in VectorsOfLen(TargetVals, Last(m_layerSizes)) : setTarget(target)
    /\ nCalls' = nCalls + 1
    /\ UNCHANGED << pc, trainingData, trainingPass >>

CallFeedForward ==
    /\ Callable
    /\ feedForward
    /\ nCalls' = nCalls + 1
    /\ UNCHANGED << pc, trainingData, trainingPass >>

CallBackPropagate ==
    /\ Callable
    /\ backPropagate
    /\ nCalls' = nCalls + 1
    /\ UNCHANGED << pc, trainingData, trainingPass >>

CallUpdate ==
    /\ Callable
    /\ update
    /\ nCalls' = nCalls + 1
    /\ UNCHANGED << pc, trainingData, trainingPass >>

----------------------------------------------------------------------------
(* Network::train *)

\* (variant: the error list cleared before feedForward runs)
AfterStepClearFirst(p) ==
    CASE p = "setInput" -> "setTarget"
      [] p = "setTarget" -> "clear"
      [] p = "clear" -> "feedForward"
      [] p = "feedForward" -> "backPropagate"
      [] p = "backPropagate" -> "update"

\* (variant: the error list never cleared)
AfterStepNoClear(p) ==
    CASE p = "setInput" -> "setTarget"
      [] p = "setTarget" -> "feedForward"
      [] p = "feedForward" -> "backPropagate"
      [] p = "clear" -> "backPropagate"
      [] p = "backPropagate" -> "update"

\* The statement that follows statement p in the body of the loop of train
AfterStep(p) ==
    CASE p = "setInput" -> "setTarget"
      [] p = "setTarget" -> "feedForward"
      [] p = "feedForward" -> "clear"
      [] p = "clear" -> "backPropagate"
      [] p = "backPropagate" -> "update"

\* The sample of the current iteration
trainingSample == trainingData[trainingPass + 1]

Train ==
    /\ Callable
    /\ \E n \in 0..MaxSamples :
          /\ nCalls + n <= MaxCalls
          /\ nCalls' = IF n = 0 THEN nCalls + 1 ELSE nCalls + n
          /\ \E data \in SampleLists(n) :
                /\ trainingData' = data
                /\ pc' = IF n = 0 THEN "idle" ELSE "setInput"
    /\ trainingPass' = 0
    /\ lastOp' = "train"
    /\ lastArg' = << >>
    /\ thrown' = "none"
    /\ log' = << >>
    /\ UNCHANGED << m_layerSizes, m_numLayers, m_layers, m_weightMatrices, m_input,
                    m_targetOutput, m_errors, errOfLayer >>

TrainSetInput ==
    /\ pc = "setInput"
    /\ setInput(trainingSample[1])
    /\ pc' = AfterStep(pc)
    /\ UNCHANGED << trainingData, trainingPass, nCalls >>

TrainSetTarget ==
    /\ pc = "setTarget"
    /\ setTarget(trainingSample[2])
    /\ pc' = AfterStep(pc)
    /\ UNCHANGED << trainingData, trainingPass, nCalls >>

TrainFeedForward ==
    /\ pc = "feedForward"
    /\ feedForward
    /\ pc' = AfterStep(pc)
    /\ UNCHANGED << trainingData, trainingPass, nCalls >>

\* m_errors.clear()
TrainClear ==
    /\ pc = "clear"
    /\ m_errors' = << >>
    /\ thrown' = "none"
    /\ Logged("clear", << >>)
    /\ pc' = AfterStep(pc)
    /\ UNCHANGED << m_layerSizes, m_numLayers, m_layers, m_weightMatrices, m_input,
                    m_targetOutput, errOfLayer, nCalls, trainingData, trainingPass >>

TrainBackPropagate ==
    /\ pc = "backPropagate"
    /\ backPropagate
    /\ pc' = AfterStep(pc)
    /\ UNCHANGED << trainingData, trainingPass, nCalls >>

\* update, then ++trainingPass and the next sample, or the return
TrainUpdate ==
    /\ pc = "update"
    /\ update
    /\ trainingPass' = trainingPass + 1
    /\ UNCHANGED nCalls
    /\ IF trainingPass + 1 < Len(trainingData)
       THEN pc' = "setInput" /\ UNCHANGED trainingData
       ELSE pc' = "idle" /\ trainingData' = << >>

----------------------------------------------------------------------------
Init ==
    /\ pc = "new"
    /\ m_layerSizes = << >>
    /\ m_numLayers = 0
    /\ m_layers = << >>
    /\ m_weightMatrices = << >>
    /\ m_input = << >>
    /\ m_targetOutput = << >>
    /\ m_errors = << >>
    /\ trainingData = << >>
    /\ trainingPass = 0
    /\ lastOp = "none"
    /\ lastArg = << >>
    /\ thrown = "none"
    /\ log = << >>
    /\ errOfLayer = << >>
    /\ nCalls = 0

Next ==
    \/ Construct
    \/ CallSetInput
    \/ CallSetTarget
    \/ CallFeedForward
    \/ CallBackPropagate
    \/ CallUpdate
    \/ Train
    \/ TrainSetInput
    \/ TrainSetTarget
    \/ TrainFeedForward
    \/ TrainClear
    \/ TrainBackPropagate
    \/ TrainUpdate

Spec == Init /\ [][Next]_vars

----------------------------------------------------------------------------
(* Properties *)

\* What the steps below are recognised by
UpdateStep == lastOp' = "update" /\ thrown' = "none" /\ (nCalls' # nCalls \/ log' # log)
BackPropagateStep == Len(m_errors') > Len(m_errors)
Constructed == pc # "new" /\ ValidSizes(m_layerSizes)

\* What one sample adds to the log of train
SampleLog(sample) ==
    << << "setInput", sample[1] >>, << "setTarget", sample[2] >>,
       << "feedForward", << >> >>, << "clear", << >> >>,
       << "backPropagate", << >> >>, << "update", << >> >> >>

RECURSIVE ExpectedLog(_)
ExpectedLog(data) ==
    IF data = << >> THEN << >> ELSE SampleLog(Head(data)) \o ExpectedLog(Tail(data))

\* The number of steps of the current sample that lie before position p
StepIndex(p) ==
    CASE p = "setInput" -> 0
      [] p = "setTarget" -> 1
      [] p = "feedForward" -> 2
      [] p = "clear" -> 3
      [] p = "backPropagate" -> 4
      [] p = "update" -> 5

\* C1: train processes the samples in list order; for each sample it runs
\* setInput, setTarget, feedForward, clear of the error list, backPropagate,
\* update, in this order and once each; a sample starts only after the update
\* of the sample before it.  At every position inside train the operations
\* executed so far are the expected sequence up to that position, and at the
\* return they are the expected sequence for the whole list.
C1_TrainOrder ==
    [][ /\ InTrain' =>
             log' = SubSeq(ExpectedLog(trainingData'), 1, 6 * trainingPass' + StepIndex(pc'))
        /\ (InTrain /\ pc' = "idle") => log' = ExpectedLog(trainingData) ]_vars

C1_Witness ==
    /\ pc = "idle"
    /\ lastOp = "update"
    /\ Len(log) = 12
    /\ log[1] # log[7]

C4_BiasInForward ==
    (Constructed /\ lastOp = "feedForward") =>
        \A L \in 2..m_numLayers : \A j \in 1..getSize(m_layers[L]) :
            m_layers[L][j].activation =
                Squash(MatVec(m_weightMatrices[L - 1], getActivations(m_layers[L - 1]))[j]
                       + m_layers[L][j].bias)

\* C5: a backPropagate that runs to its end appends one error vector per
\* non-input layer and none for the input layer; the output layer's is
\* (activation - target) times the output derivatives; for every hidden layer
\* L, from the penultimate down to the layer after the input layer, it has the
\* length of the layer and is (transpose(WeightMatrix[L]) * error of layer
\* L+1) times the derivatives of layer L, the error of layer L+1 being the one
\* of this same pass.
C5_BackPropagate ==
    [][ BackPropagateStep =>
          LET n == m_numLayers
              E(L) == m_errors'[Len(m_errors) + (n - L) + 1]
          IN /\ Len(m_errors') = Len(m_errors) + n - 1
             /\ SubSeq(m_errors', 1, Len(m_errors)) = m_errors
             /\ E(n) = [i \in 1..m_layerSizes[n] |->
                          (m_layers[n][i].activation - m_targetOutput[i])
                              * m_layers[n][i].derivative]
             /\ \A L \in 2..(n - 1) :
                   /\ Len(E(L)) = m_layerSizes[L]
                   /\ E(L) = hadamardProduct(MatVec(Transpose(m_weightMatrices[L]), E(L + 1)),
                                             getDerivatives(m_layers[L])) ]_vars

C5_Witness ==
    /\ lastOp = "backPropagate"
    /\ thrown = "none"
    /\ m_numLayers = 3
    /\ Len(m_errors) >= 2
    /\ m_errors[Len(m_errors) - 1] # << 0 >>
    /\ Last(m_errors) # MatVec(Transpose(m_weightMatrices[2]), m_errors[Len(m_errors) - 1])

\* C6: when train has processed a sample, the error list holds exactly one
\* vector per non-input layer, all of that sample: the first is the output
\* layer's error for the sample's target, the k-th after it the error of the
\* k-th layer before the output layer, of that layer's length, the last the
\* error of the layer after the input layer; with two layers the list holds
\* the output error alone.
C6_ErrorsPerSample ==
    [][ (pc = "update" /\ pc' # "update") =>
          LET n == m_numLayers
          IN /\ Len(m_errors') = n - 1
             /\ \A k \in 0..(n - 2) :
                   /\ Len(m_errors'[k + 1]) = m_layerSizes[n - k]
                   /\ m_errors'[k + 1] = errOfLayer'[n - k]
             /\ m_errors'[1] =
                   hadamardProduct(GradCost(getActivations(m_layers'[n]), trainingSample[2]),
                                   getDerivatives(m_layers'[n]))
             /\ (n = 2 => m_errors' = << m_errors'[1] >>) ]_vars

C6_Witness ==
    /\ pc = "setInput"
    /\ trainingPass = 1
    /\ lastOp = "update"
    /\ m_numLayers = 3
    /\ Len(m_errors) = 2
    /\ m_errors[2] # << 0, 0 >>

\* What update makes of the weights and biases when, for weight matrix L, it
\* uses the error vector e(L)
UpdateWith(e(_)) ==
    /\ \A L \in 1..Len(m_weightMatrices) :
         \A j \in 1..m_layerSizes[L + 1] :
            /\ \A i \in 1..m_layerSizes[L] :
                  m_weightMatrices'[L][j][i] =
                      m_weightMatrices[L][j][i]
                          - LEARNINGRATE * m_layers[L][i].activation * e(L)[j]
            /\ m_layers'[L + 1][j].bias =
                  m_layers[L + 1][j].bias - LEARNINGRATE * e(L)[j]
    /\ \A j \in 1..m_layerSizes[1] : m_layers'[1][j].bias = m_layers[1][j].bias
    /\ \A L \in 1..Len(m_layers) :
          /\ getActivations(m_layers'[L]) = getActivations(m_layers[L])
          /\ getInputs(m_layers'[L]) = getInputs(m_layers[L])
          /\ getDerivatives(m_layers'[L]) = getDerivatives(m_layers[L])
    /\ m_errors' = m_errors

\* C7 as stated: update replaces every weight (j,i) of matrix l by oldWeight -
\* learningRate * activation[l][i] * e[j] and the bias of neuron j of layer
\* l+1 by oldBias - learningRate * e[j], e being the error-list element at
\* index numWeightMatrices-1-l; activations and errors stay as they are.
C7_UpdateIndexFromStart ==
    [][ UpdateStep =>
          LET e(L) == m_errors[Len(m_weightMatrices) - L + 1] IN UpdateWith(e) ]_vars

\* C7 amended: the same, e being the error-list element at index
\* (length of the error list)-1-l.
C7_UpdateIndexFromEnd ==
    [][ UpdateStep =>
          LET e(L) == m_errors[Len(m_errors) - L + 1] IN UpdateWith(e) ]_vars

C7_Witness ==
    /\ lastOp = "update"
    /\ thrown = "none"
    /\ m_numLayers = 3
    /\ Len(m_errors) = 4
    /\ m_errors[2] # m_errors[4]
    /\ \E j \in 1..2 : m_layers[2][j].bias \notin RandVals

\* C8: setInput with a vector shorter or longer than layer 0 fails with a
\* dimension-mismatch error and leaves the stored input vector and the input
\* layer as they were.
C8_SetInputRejects ==
    [][ ( /\ pc = "idle"
          /\ nCalls' = nCalls + 1
          /\ lastOp' = "setInput"
          /\ Len(lastArg') # m_layerSizes[1] ) =>
        ( /\ thrown' = "dimension_mismatch"
          /\ m_input' = m_input
          /\ m_layers' = m_layers ) ]_vars

\* C9: no Network object comes out of a layer-size list with fewer than two
\* entries or with an entry equal to zero.
C9_ConstructorFailsFast ==
    (pc # "new" /\ thrown = "none") => ValidSizes(m_layerSizes)

\* C10: whatever number of backPropagate calls filled the error list since it
\* was last cleared, update uses for weight matrix l the error the latest
\* backPropagate computed for layer l+1.
C10_UpdateUsesLatest ==
    [][ UpdateStep =>
          \A L \in 1..Len(m_weightMatrices) :
             \A j \in 1..m_layerSizes[L + 1] :
                /\ \A i \in 1..m_layerSizes[L] :
                      m_weightMatrices'[L][j][i] =
                          m_weightMatrices[L][j][i]
                              - LEARNINGRATE * m_layers[L][i].activation
                                             * errOfLayer[L + 1][j]
                /\ m_layers'[L + 1][j].bias =
                      m_layers[L + 1][j].bias - LEARNINGRATE * errOfLayer[L + 1][j] ]_vars

C10_Witness ==
    /\ lastOp = "update"
    /\ thrown = "none"
    /\ m_numLayers = 3
    /\ Len(m_errors) = 4
    /\ m_errors[1] # m_errors[3]
    /\ m_errors[2] # m_errors[4]
    /\ m_weightMatrices[1] \notin { << << a >>, << b >> >> : a \in RandVals, b \in RandVals }

====
